---- MODULE Spec2Model ----
(***************************************************************************)
(* SkyTrip: the in-memory response cache (lib/cache.ts), the rate-limited  *)
(* WindBorne client (lib/windborne.ts), the SerpApi flight provider        *)
(* (lib/flights/provider.serpapi.ts) and the three API routes that use     *)
(* them.  Time is Date.now() in milliseconds.  Every action is one run of  *)
(* the event loop: the code of a handler between two awaits.               *)
(***************************************************************************)
EXTENDS Integers, Sequences, FiniteSets, TLC

(* ---------------------------------------------------------------- bounds *)
NCallers == 2        \* handlers that can be suspended at the same time
MaxCalls == 2        \* direct invocations (rlFetch, setCache) in one behaviour
MaxRequests == 2     \* HTTP requests received in one behaviour
MaxTicks == 1        \* times the clock advances other than to a timer's deadline
MaxBatch == 3        \* records in a batch handed to clean or answered to getHistory
MaxOver == 3         \* a price or duration is at most MaxOver times the budget or shortest
MaxDist == 25        \* a temperature is at most MaxDist degrees outside the preferred band
MaxOffers == 3       \* offers in the best_flights list of one provider answer
MaxLegs == 2         \* legs, and layovers, of one offer

(* ------------------------------------------------------------- constants *)
LIMIT == 20
WINDOW == 60000

VARIABLES
    now,      \* Date.now()
    ticks,    \* number of clock advances so far
    stamps,   \* windborne.ts: let stamps: number[]
    store,    \* cache.ts: const store = new Map<string, Entry>()
    req,      \* per handler: where it is suspended and what it answered
    nCalls,   \* invocations started so far (the next one gets nCalls + 1)
    admits,   \* history: <<id, time>> of every stamps.push, in order
    lastOp,   \* history: the last direct cache operation and its result
    sets,     \* history: per key, the most recent setCache [v, t0, ttl]
    last,     \* history: the most recent answer given to a caller
    calc      \* history: the last direct call of a pure function [fn, in, out]

vars == <<now, ticks, stamps, store, req, nCalls, admits, lastOp, sets, last, calc>>

Callers == 1..NCallers

\* JavaScript values are records with a tag; undefined is one of them.
Absent == [tag |-> "undefined"]
EmptyStore == [k \in {} |-> Absent]
NoParam == "noparam"     \* searchParams.get(..) = null (or the empty string)
NoCalc == [fn |-> "none"]

\* Windows the limiter can hold when a behaviour starts: none yet (the state
\* after module load), or LIMIT - 1 or LIMIT earlier invocations (id 0) whose
\* requests were issued in the millisecond 0 (the first m of them) and in the
\* millisecond 1 and have all been answered.
Prefill(n, m) == [i \in 1..n |-> IF i <= m THEN 0 ELSE 1]
Prefills == {<<>>, Prefill(LIMIT - 1, 1), Prefill(LIMIT, 1), Prefill(LIMIT, LIMIT)}

(* ----------------------------------------------------------------- clock *)
\* Instants at which something becomes due: a limiter timer, a cache expiry.
Deadlines == {req[c].deadline : c \in {d \in Callers : req[d].pc = "waiting"}}
Expiries == {store[k].exp : k \in DOMAIN store} \cup {store[k].exp + 1 : k \in DOMAIN store}
NextTimes == {now + 1} \cup {t \in Deadlines \cup Expiries : t > now}

\* The clock advances; nothing in the program runs (no timer sweeps the cache,
\* a due setTimeout callback runs only in its own turn: Wake).
\* MaxTicks bounds the advances that are not to a pending timer's deadline, so
\* that a pending timer always comes due.
Tick ==
    /\ \E t \in NextTimes :
         /\ ticks < MaxTicks \/ t \in Deadlines
         /\ now' = t
         /\ ticks' = IF t \in Deadlines THEN ticks ELSE ticks + 1
    /\ UNCHANGED <<stamps, store, req, nCalls, admits, lastOp, sets, last, calc>>

(* --------------------------------------------------------------- limiter *)
\* stamps.filter((t) => now - t < WINDOW)
Prune(s, t) == SelectSeq(s, LAMBDA x : t - x < WINDOW)

\* const wait = WINDOW - (now - stamps[0])
WaitMs(s, t) == WINDOW - (t - s[1])

NoQuery == [f \in {} |-> NoParam]
\* A handler: where it is suspended (pc), for which invocation (id), endpoint,
\* query and cache key, and the deadline of its limiter timer.
IdleReq == [pc |-> "idle", id |-> 0, ep |-> "none", q |-> NoQuery, key |-> <<>>,
            deadline |-> 0, waited |-> FALSE]

\* An answer: the invocation it ends (id, ep, q, key), the HTTP status and body
\* given, the upstream answer it rests on (up; "none" when no upstream request
\* was made) and whether it was served from the cache (hit).
NoAnswer == [id |-> 0, ep |-> "none", q |-> NoQuery, key |-> <<>>,
             status |-> 0, body |-> Absent, up |-> "none", hit |-> FALSE]
Answer(r, status, body, up, hit) ==
    [id |-> r.id, ep |-> r.ep, q |-> r.q, key |-> r.key,
     status |-> status, body |-> body, up |-> up, hit |-> hit]

\* A limiter that turns a caller away when the window is full (a faulty variant, for comparison).
rlFetchEnterReject(c, r) ==
    LET kept == Prune(stamps, now) IN
    IF Len(kept) >= LIMIT
    THEN /\ stamps' = kept
         /\ req' = [req EXCEPT ![c] = IdleReq]
         /\ last' = Answer(r, 429, Absent, "none", FALSE)
         /\ UNCHANGED admits
    ELSE /\ stamps' = Append(kept, now)
         /\ req' = [req EXCEPT ![c] = [r EXCEPT !.pc = "fetching"]]
         /\ admits' = Append(admits, <<r.id, now>>)
         /\ UNCHANGED last

\* rlFetch up to its first await, run by handler c for invocation r (a record
\* that already names the endpoint and key).  Either the window has room and
\* the timestamp is pushed and the request issued, or the handler suspends on
\* setTimeout(r, wait) without pushing.
rlFetchEnter(c, r) ==
    LET kept == Prune(stamps, now) IN
    IF Len(kept) >= LIMIT
    THEN /\ stamps' = kept
         /\ req' = [req EXCEPT ![c] = [r EXCEPT !.pc = "waiting", !.waited = TRUE,
                                                !.deadline = now + WaitMs(kept, now)]]
         /\ UNCHANGED <<admits, last>>
    ELSE /\ stamps' = Append(kept, now)
         /\ req' = [req EXCEPT ![c] = [r EXCEPT !.pc = "fetching"]]
         /\ admits' = Append(admits, <<r.id, now>>)
         /\ UNCHANGED last

\* The timer of a suspended rlFetch fires (at or after its deadline): the
\* continuation pushes Date.now() and issues the request, without looking at
\* the window again.
Wake(c) ==
    /\ req[c].pc = "waiting"
    /\ now >= req[c].deadline
    /\ stamps' = Append(stamps, now)
    /\ admits' = Append(admits, <<req[c].id, now>>)
    /\ req' = [req EXCEPT ![c].pc = "fetching"]
    /\ UNCHANGED <<now, ticks, store, nCalls, lastOp, sets, last, calc>>

(* ------------------------------------------------- WindBorne responses *)
\* What the provider can answer: an HTTP status class and a body.  A body is
\* [kind, pts]: the text's shape, and the observations or station records it
\* carries when it has any.
\*   "empty"/"blank"  zero-length or whitespace-only text
\*   "array"          valid JSON, a bare array
\*   "object"         valid JSON, {"points": [...]}
\*   "fragment"       "points": [...] without the enclosing braces
\*   "other"          valid JSON of another shape ({} or {"detail": ..})
\*   "garbage"        text no parse or repair accepts
BodyKinds == {"empty", "blank", "array", "object", "fragment", "other", "garbage"}

\* The text of a body is [pre, pts, post]: the tokens before the list of
\* records, the records, and the tokens after.  Tokens: "{" "}" "[" "]" ":",
\* "points" (the quoted key), " " (white space), "x" (anything else).
Text(pre, pts, post) == [pre |-> pre, pts |-> pts, post |-> post]
TextOf(kind, pts) ==
    IF kind = "empty" THEN Text(<<>>, <<>>, <<>>)
    ELSE IF kind = "blank" THEN Text(<<" ">>, <<>>, <<>>)
    ELSE IF kind = "array" THEN Text(<<"[">>, pts, <<"]">>)
    ELSE IF kind = "object" THEN Text(<<"{", "points", ":", "[">>, pts, <<"]", "}">>)
    ELSE IF kind = "fragment" THEN Text(<<"points", ":", "[">>, pts, <<"]">>)
    ELSE IF kind = "other" THEN Text(<<"{">>, <<>>, <<"}">>)
    ELSE Text(<<"x">>, <<>>, <<>>)

\* !text || text.trim().length === 0
IsBlank(text) ==
    /\ text.pts = <<>>
    /\ \A i \in 1..Len(text.pre) : text.pre[i] = " "
    /\ \A i \in 1..Len(text.post) : text.post[i] = " "

\* JSON.parse(text): <<"ok", [shape, pts]>> for a bare array, an object with
\* a points array, or another object; <<"error", ..>> for a SyntaxError.
JSONparse(text) ==
    IF text.pre = <<"[">> /\ text.post = <<"]">>
    THEN <<"ok", [shape |-> "array", pts |-> text.pts]>>
    ELSE IF text.pre = <<"{", "points", ":", "[">> /\ text.post = <<"]", "}">>
    THEN <<"ok", [shape |-> "points", pts |-> text.pts]>>
    ELSE IF text.pre = <<"{">> /\ text.post = <<"}">> /\ text.pts = <<>>
    THEN <<"ok", [shape |-> "other", pts |-> <<>>]>>
    ELSE <<"error", "SyntaxError">>

\* trimmed.startsWith('"points":'), and the pattern /^["']?points["']?\s*:/i
StartsWithPoints(text) ==
    Len(text.pre) >= 2 /\ text.pre[1] = "points" /\ text.pre[2] = ":"

\* `{"points": ${arrayPart}}`: what follows the first colon, wrapped.
WrapAfterColon(text) ==
    Text(<<"{", "points", ":">> \o SubSeq(text.pre, 3, Len(text.pre)), text.pts,
         text.post \o <<"}">>)

\* `{"points": ${trimmed}}`
WrapWhole(text) == Text(<<"{", "points", ":">> \o text.pre, text.pts, text.post \o <<"}">>)

\* /"points"\s*:\s*\[/ somewhere in the text, and the bracket it opens is
\* closed: the array is cut out and wrapped.
HasPointsArray(text) ==
    /\ Len(text.pre) >= 3
    /\ text.pre[Len(text.pre) - 2] = "points"
    /\ text.pre[Len(text.pre) - 1] = ":"
    /\ text.pre[Len(text.pre)] = "["
    /\ text.post /= <<>>
    /\ text.post[1] = "]"
ExtractArray(text) == Text(<<"{", "points", ":", "[">>, text.pts, <<"]", "}">>)

\* The catch block of JSON.parse in rlFetch: the repairs, tried in order.
RepairParse(text) ==
    IF StartsWithPoints(text) /\ JSONparse(WrapAfterColon(text))[1] = "ok"
    THEN JSONparse(WrapAfterColon(text))
    ELSE IF text.pre /= <<>> /\ text.pre[1] = "[" /\ JSONparse(WrapWhole(text))[1] = "ok"
    THEN JSONparse(WrapWhole(text))
    ELSE IF HasPointsArray(text) /\ JSONparse(ExtractArray(text))[1] = "ok"
    THEN JSONparse(ExtractArray(text))
    ELSE <<"error", "Invalid JSON response from WindBorne API">>

\* `WindBorne ${res.status}`
StatusMessage(status) ==
    IF status = 404 THEN "WindBorne 404"
    ELSE IF status = 500 THEN "WindBorne 500"
    ELSE "WindBorne 503"

\* An rlFetch without the repairs: a text JSON.parse rejects is an error (a
\* faulty variant, for comparison).
rlFetchTextStrict(resp) ==
    IF ~resp.net THEN <<"error", "WindBorne fetch error">>
    ELSE IF ~resp.ok THEN <<"error", StatusMessage(resp.status)>>
    ELSE IF IsBlank(resp.text) THEN <<"error", "Empty response from WindBorne API">>
    ELSE IF JSONparse(resp.text)[1] = "ok" THEN JSONparse(resp.text)
    ELSE <<"error", "Invalid JSON response from WindBorne API">>

\* rlFetch from the response [net, ok, text] on: <<"ok", parsed>> or
\* <<"error", message>>.
rlFetchText(resp) ==
    IF ~resp.net THEN <<"error", "WindBorne fetch error">>
    ELSE IF ~resp.ok THEN <<"error", StatusMessage(resp.status)>>
    ELSE IF IsBlank(resp.text) THEN <<"error", "Empty response from WindBorne API">>
    ELSE IF JSONparse(resp.text)[1] = "ok" THEN JSONparse(resp.text)
    ELSE RepairParse(resp.text)

\* The provider's answer is [net, ok, body]: net is FALSE when fetch itself
\* rejects, ok is res.ok, body is [kind, pts] and its text is TextOf(kind, pts).
\* The outcome of rlFetch from the response on: <<"ok", parsed>> or
\* <<"error", message>>.  parsed is [shape, pts]: what JSON.parse (strict, or
\* after a repair) returns.
rlFetchResult(resp) ==
    rlFetchText([net |-> resp.net, ok |-> resp.ok, status |-> resp.status,
                 text |-> TextOf(resp.body.kind, resp.body.pts)])

\* What a handler remembers of the answer it got (history).
UpClass(resp) ==
    IF ~resp.net THEN "network"
    ELSE IF ~resp.ok THEN "status"
    ELSE resp.body.kind

WbBody(k, pts) == [kind |-> k, pts |-> IF k \in {"array", "object", "fragment"} THEN pts ELSE <<>>]
WbResponses(kinds, ptsSet) ==
    {[net |-> FALSE, ok |-> FALSE, status |-> 0, body |-> WbBody("empty", <<>>)],
     [net |-> TRUE, ok |-> FALSE, status |-> 500, body |-> WbBody("other", <<>>)]}
    \cup {[net |-> TRUE, ok |-> TRUE, status |-> 200, body |-> WbBody(k, pts)] :
            k \in kinds, pts \in ptsSet}
NotFound == [net |-> TRUE, ok |-> FALSE, status |-> 404, body |-> WbBody("other", <<>>)]

(* ------------------------------------------------ the limiter on its own *)
\* A caller invokes rlFetch(path) directly.
Call(c) ==
    /\ req[c].pc = "idle"
    /\ nCalls < MaxCalls
    /\ nCalls' = nCalls + 1
    /\ rlFetchEnter(c, [IdleReq EXCEPT !.id = nCalls + 1, !.ep = "rl"])
    /\ UNCHANGED <<now, ticks, store, lastOp, sets, calc>>

\* How rlFetch ends for its caller: it returns the parsed value or throws an
\* Error with a message; upstatus is the status the provider answered with.
Outcome(resp) ==
    LET r == rlFetchResult(resp)
    IN  [tag |-> IF r[1] = "ok" THEN "returned" ELSE "thrown",
         message |-> IF r[1] = "ok" THEN "" ELSE r[2],
         upstatus |-> resp.status]

\* An rlFetch that issues its request again after a failure (a faulty variant,
\* for comparison).
RespondRetry(c) ==
    /\ req[c].pc = "fetching"
    /\ req[c].ep = "rl"
    /\ \E resp \in WbResponses({"empty", "array", "garbage"}, {<<>>}) \cup {NotFound} :
         IF rlFetchResult(resp)[1] = "ok"
         THEN /\ last' = Answer(req[c], 200, Outcome(resp), UpClass(resp), FALSE)
              /\ req' = [req EXCEPT ![c] = IdleReq]
              /\ UNCHANGED <<stamps, admits>>
         ELSE /\ stamps' = Append(stamps, now)
              /\ admits' = Append(admits, <<req[c].id, now>>)
              /\ UNCHANGED <<req, last>>
    /\ UNCHANGED <<now, ticks, store, nCalls, lastOp, sets, calc>>

\* The response of an issued request arrives and rlFetch returns or throws.
Respond(c) ==
    /\ req[c].pc = "fetching"
    /\ req[c].ep = "rl"
    /\ \E resp \in WbResponses({"empty", "array", "garbage"}, {<<>>}) \cup {NotFound} :
         last' = Answer(req[c], IF rlFetchResult(resp)[1] = "ok" THEN 200 ELSE 500,
                        Outcome(resp), UpClass(resp), FALSE)
    /\ req' = [req EXCEPT ![c] = IdleReq]
    /\ UNCHANGED <<now, ticks, stamps, store, nCalls, admits, lastOp, sets, calc>>

InitRL ==
    /\ now = 1
    /\ ticks = 0
    /\ stamps \in Prefills
    /\ store = EmptyStore
    /\ req = [c \in Callers |-> IdleReq]
    /\ nCalls = 0
    /\ admits = [i \in 1..Len(stamps) |-> <<0, stamps[i]>>]
    /\ lastOp = [op |-> "none"]
    /\ sets = EmptyStore
    /\ last = NoAnswer
    /\ calc = NoCalc

NextRL ==
    \/ \E c \in Callers : Call(c)
    \/ \E c \in Callers : Wake(c)
    \/ \E c \in Callers : Respond(c)
    \/ Tick

SpecRL == InitRL /\ [][NextRL]_vars

\* The timers are served and the clock runs: what the event loop guarantees.
FairRL == SpecRL /\ WF_vars(Tick) /\ \A c \in Callers : WF_vars(Wake(c))

(* ---- claims about the limiter ---- *)
AdmitIds == {admits[j][1] : j \in 1..Len(admits)}
InWindowFrom(t) == {j \in 1..Len(admits) : admits[j][2] >= t /\ admits[j][2] < t + WINDOW}

\* C1: in any interleaving of rlFetch invocations, at most LIMIT timestamps are
\* recorded (requests issued) within any interval [t, t + WINDOW).
C1_RollingBound ==
    \A i \in 1..Len(admits) : Cardinality(InWindowFrom(admits[i][2])) <= LIMIT

\* C4: an invocation made earlier never has a later timestamp than one made
\* after it (ids are handed out in invocation order).
C4_SubmissionOrder ==
    \A i, j \in 1..Len(admits) :
        admits[i][1] < admits[j][1] => admits[i][2] <= admits[j][2]

\* C5: every invocation is eventually admitted; one that finds the window full
\* is suspended for at most WINDOW ms and, once resumed, is admitted without
\* being suspended again or rejected.
C5_EventuallyAdmitted ==
    /\ \A i \in 1..MaxCalls : (nCalls >= i) ~> (i \in AdmitIds)
    /\ [](\A c \in Callers : req[c].pc = "waiting" =>
            /\ req[c].deadline > now - WINDOW
            /\ req[c].deadline <= now + WINDOW)
    /\ [][\A c \in Callers : req[c].pc = "waiting" =>
            req'[c].pc = "waiting" \/ (req'[c].pc = "fetching" /\ req'[c].id \in AdmitIds')]_vars

C5_Witness ==
    \E c \in Callers : req[c].pc = "fetching" /\ req[c].waited /\ req[c].id \in AdmitIds

(* ----------------------------------------------------------------- cache *)
\* An entry that expires one millisecond early (a faulty variant, for comparison).
getCacheEarly(k) ==
    IF k \notin DOMAIN store THEN Absent
    ELSE IF now >= store[k].exp THEN Absent
    ELSE store[k].v

\* getCache(k): the value returned ...
getCache(k) ==
    IF k \notin DOMAIN store THEN Absent
    ELSE IF now > store[k].exp THEN Absent
    ELSE store[k].v

\* A get that empties the store when it finds an expired entry (a faulty
\* variant, for comparison).
getCacheStoreClear(k) ==
    IF k \in DOMAIN store /\ now > store[k].exp
    THEN EmptyStore
    ELSE store

\* ... and the store it leaves: an entry found expired is deleted.
getCacheStore(k) ==
    IF k \in DOMAIN store /\ now > store[k].exp
    THEN [x \in DOMAIN store \ {k} |-> store[x]]
    ELSE store

\* A set that always uses the default of ttlMs (a faulty variant, for comparison).
setCacheDefaultTtl(st, k, v, ttlMs) ==
    [x \in DOMAIN st \cup {k} |-> IF x = k THEN [v |-> v, exp |-> now + 300000] ELSE st[x]]

\* setCache(k, v, ttlMs): store.set(k, {v, exp: Date.now() + ttlMs})
setCache(st, k, v, ttlMs) ==
    [x \in DOMAIN st \cup {k} |-> IF x = k THEN [v |-> v, exp |-> now + ttlMs] ELSE st[x]]

(* ------------------------------------------------- the cache on its own *)
CacheKeys == {<<"stations:v1">>, <<"wx:", "A">>}
CacheVals == {[tag |-> "list", items |-> <<>>], [tag |-> "list", items |-> <<"x">>]}
TTLs == {1000, 120000}

Get(k) ==
    /\ lastOp' = [op |-> "get", k |-> k, t |-> now, ret |-> getCache(k)]
    /\ store' = getCacheStore(k)
    /\ UNCHANGED <<now, ticks, stamps, req, nCalls, admits, sets, last, calc>>

Set(k, v, ttl) ==
    /\ nCalls < MaxCalls
    /\ nCalls' = nCalls + 1
    /\ store' = setCache(store, k, v, ttl)
    /\ lastOp' = [op |-> "set", k |-> k, t |-> now, ret |-> Absent]
    /\ sets' = [x \in DOMAIN sets \cup {k} |->
                  IF x = k THEN [v |-> v, t0 |-> now, ttl |-> ttl] ELSE sets[x]]
    /\ UNCHANGED <<now, ticks, stamps, req, admits, last, calc>>

InitCache ==
    /\ now = 1
    /\ ticks = 0
    /\ stamps = <<>>
    /\ store = EmptyStore
    /\ req = [c \in Callers |-> IdleReq]
    /\ nCalls = 0
    /\ admits = <<>>
    /\ lastOp = [op |-> "none"]
    /\ sets = EmptyStore
    /\ last = NoAnswer
    /\ calc = NoCalc

NextCache ==
    \/ \E k \in CacheKeys : Get(k)
    \/ \E k \in CacheKeys, v \in CacheVals, ttl \in TTLs : Set(k, v, ttl)
    \/ Tick

SpecCache == InitCache /\ [][NextCache]_vars

(* ---- claims about the cache ---- *)
\* C3: a get(k) made no later than t0 + ttl of the latest set(k, v, ttl)
\* returns v and leaves the entry; a get(k) made after t0 + ttl returns
\* undefined and leaves no entry for k (so later gets return undefined until a
\* new set); and an entry leaves the store only in a get: the passing of time
\* alone changes nothing.
C3_TtlAtRead ==
    /\ [](lastOp.op = "get" /\ lastOp.k \in DOMAIN sets =>
            LET e == sets[lastOp.k] IN
            IF lastOp.t <= e.t0 + e.ttl
            THEN lastOp.ret = e.v /\ lastOp.k \in DOMAIN store
            ELSE lastOp.ret = Absent /\ lastOp.k \notin DOMAIN store)
    /\ [](lastOp.op = "get" /\ lastOp.k \notin DOMAIN store => lastOp.ret = Absent)
    /\ [][now' /= now => store' = store]_vars
    /\ [][\A k \in DOMAIN store \ DOMAIN store' :
            lastOp'.op = "get" /\ lastOp'.k = k /\ lastOp'.t > store[k].exp]_vars

\* A get after the expiry found the entry, returned undefined and removed it.
C3_Witness ==
    /\ lastOp.op = "get"
    /\ lastOp.k \in DOMAIN sets
    /\ lastOp.t > sets[lastOp.k].t0 + sets[lastOp.k].ttl
    /\ lastOp.ret = Absent
    /\ lastOp.k \notin DOMAIN store

(* ------------------------------------------------ WindBorne: the listings *)
\* {a, ...b}: the fields of b override those of a.
Spread(a, b) == [f \in DOMAIN a \cup DOMAIN b |-> IF f \in DOMAIN b THEN b[f] ELSE a[f]]

\* A field that is undefined is a field the record does not have.
Renamed(s, from, to) == IF from \in DOMAIN s THEN [f \in {to} |-> s[from]] ELSE [f \in {} |-> 0]

\* getStations' data.map: {id: s.station_id, name: s.station_name,
\* lat: s.latitude, lon: s.longitude, ...s}
StationOf(s) ==
    Spread(Spread(Spread(Spread(Renamed(s, "station_id", "id"),
                                Renamed(s, "station_name", "name")),
                         Renamed(s, "latitude", "lat")),
                  Renamed(s, "longitude", "lon")),
           s)

\* getStations: <<"ok", list>> or <<"error", message>>.  data.map exists only
\* when the parsed value is an array.
getStations(r) ==
    IF r[1] = "error" THEN r
    ELSE IF r[2].shape /= "array" THEN <<"error", "data.map is not a function">>
    ELSE <<"ok", [tag |-> "list", items |-> [i \in 1..Len(r[2].pts) |-> StationOf(r[2].pts[i])]]>>

\* An observation is [timestamp, finite, t9]: timestamp is "valid" when
\* new Date(timestamp) is a valid instant; finite says whether
\* Number(temperature) is a finite number, and t9 is that number in ninths of
\* a degree (a reading of 68 is 612), so that (f - 32) * 5 / 9 is exact.
Deg(n) == 9 * n

\* A filter without the upper limit (a faulty variant, for comparison).
cleanNoUpper(arr) ==
    SelectSeq(arr, LAMBDA p :
        /\ p.timestamp = "valid"
        /\ p.finite
        /\ ~(p.t9 < Deg(0 - 50)))

\* clean(arr)
clean(arr) ==
    SelectSeq(arr, LAMBDA p :
        /\ p.timestamp = "valid"
        /\ p.finite
        /\ ~(p.t9 < Deg(0 - 50) \/ p.t9 > Deg(50)))

RECURSIVE SumSeq(_)
SumSeq(q) == IF q = <<>> THEN 0 ELSE q[1] + SumSeq(Tail(q))

SeqMax(q) == CHOOSE x \in {q[i] : i \in 1..Len(q)} : \A i \in 1..Len(q) : q[i] <= x
SeqMin(q) == CHOOSE x \in {q[i] : i \in 1..Len(q)} : \A i \in 1..Len(q) : q[i] >= x

\* temps of getHistory: the finite readings, in order.
Temps(data) ==
    LET fin == SelectSeq(data, LAMBDA d : d.finite) IN [i \in 1..Len(fin) |-> fin[i].t9]

\* A classification without the fourth condition (a faulty variant, for
\* comparison).
likelyFahrenheitNoHot(temps) ==
    LET n == Len(temps)
        sum == SumSeq(temps)
        maxTemp == SeqMax(temps)
        minTemp == SeqMin(temps)
        inRange == Len(SelectSeq(temps, LAMBDA t : t >= Deg(32) /\ t <= Deg(100)))
    IN  \/ 10 * inRange > 7 * n
        \/ (sum >= Deg(32) * n /\ sum <= Deg(100) * n /\ maxTemp < Deg(130))
        \/ (minTemp >= Deg(32) /\ maxTemp <= Deg(100) /\ n > 5)

\* likelyFahrenheit (temps is not empty).  avg is sum / n, so avg >= 32 is
\* sum >= 32 * n; fahrenheitRatio > 0.7 is 10 * inRange > 7 * n.
likelyFahrenheit(temps) ==
    LET n == Len(temps)
        sum == SumSeq(temps)
        maxTemp == SeqMax(temps)
        minTemp == SeqMin(temps)
        inRange == Len(SelectSeq(temps, LAMBDA t : t >= Deg(32) /\ t <= Deg(100)))
    IN  \/ 10 * inRange > 7 * n
        \/ (sum >= Deg(32) * n /\ sum <= Deg(100) * n /\ maxTemp < Deg(130))
        \/ (minTemp >= Deg(32) /\ maxTemp <= Deg(100) /\ n > 5)
        \/ (maxTemp > Deg(50) /\ maxTemp < Deg(130) /\ sum > Deg(40) * n)

\* (temp - 32) * 5 / 9
ToCelsius(t9) == ((t9 - Deg(32)) * 5) \div 9

\* A map that applies the per-reading pass on top of the batch conversion (a
\* faulty variant, for comparison).
ConvertReadingTwice(d, isF, maxTemp) ==
    LET first == IF d.finite /\ isF THEN [d EXCEPT !.t9 = ToCelsius(d.t9)] ELSE d
    IN  IF ~d.finite THEN d
        ELSE IF first.t9 >= Deg(32) /\ first.t9 <= Deg(100)
                /\ maxTemp > Deg(50) /\ maxTemp < Deg(130)
        THEN [first EXCEPT !.t9 = ToCelsius(first.t9)]
        ELSE first

\* The data.map of getHistory: one reading, given the batch decision.
ConvertReading(d, isF, maxTemp) ==
    IF ~d.finite THEN d
    ELSE IF isF THEN [d EXCEPT !.t9 = ToCelsius(d.t9)]
    ELSE IF d.t9 >= Deg(32) /\ d.t9 <= Deg(100) /\ maxTemp > Deg(50) /\ maxTemp < Deg(130)
         THEN [d EXCEPT !.t9 = ToCelsius(d.t9)]
    ELSE d

\* A getHistory that returns a batch without finite readings as it came (a
\* faulty variant, for comparison).
HistoryOfSkipClean(parsed) ==
    IF parsed.shape \notin {"array", "points"} THEN <<>>
    ELSE LET data == parsed.pts
             temps == Temps(data)
         IN  IF temps = <<>> THEN data
             ELSE clean([i \in 1..Len(data) |->
                           ConvertReading(data[i], likelyFahrenheit(temps), SeqMax(temps))])

\* getHistory from the parsed response on.
HistoryOf(parsed) ==
    IF parsed.shape \notin {"array", "points"} THEN <<>>
    ELSE LET data == parsed.pts
             temps == Temps(data)
         IN  IF temps = <<>> THEN clean(data)
             ELSE clean([i \in 1..Len(data) |->
                           ConvertReading(data[i], likelyFahrenheit(temps), SeqMax(temps))])

\* getHistory: its try/catch turns every error of rlFetch into [].
getHistory(r) ==
    IF r[1] = "error" THEN <<"ok", [tag |-> "list", items |-> <<>>]>>
    ELSE <<"ok", [tag |-> "list", items |-> HistoryOf(r[2])]>>

(* ------------------------------------------------ SerpApi flight provider *)
\* The price field of an offer, as the provider sends it:
\*   [t |-> "num", n]     a number
\*   [t |-> "str", n]     a string; n is parseFloat of its digits and dots,
\*                        or -1 when that is NaN
\*   [t |-> "value", n]   {value: n}      [t |-> "price", n]   {price: n}
\*   [t |-> "none", n]    null, undefined, or an object without either
\* extractPrice: <<TRUE, n>>, or <<FALSE, 0>> for null.
extractPrice(po) ==
    IF po.t = "num" THEN <<TRUE, po.n>>
    ELSE IF po.t = "str" THEN (IF po.n >= 0 THEN <<TRUE, po.n>> ELSE <<FALSE, 0>>)
    ELSE IF po.t \in {"value", "price"} THEN <<TRUE, po.n>>
    ELSE <<FALSE, 0>>

\* if (price): null and 0 are falsy.
Usable(po) == extractPrice(po)[1] /\ extractPrice(po)[2] /= 0

\* The quotes pushed for one offer list, in order; a quote remembers the list
\* and position it came from.
QuotesOf(list, name) ==
    LET idx == SelectSeq([i \in 1..Len(list) |-> i], LAMBDA i : Usable(list[i].price))
    IN  [j \in 1..Len(idx) |->
           [price |-> extractPrice(list[idx[j]].price)[2], list |-> name, pos |-> idx[j]]]

\* flights after the three passes: best_flights, other_flights, and the
\* flights list only when the first two gave nothing.
Collected(data) ==
    LET main == QuotesOf(data.best, "best_flights") \o QuotesOf(data.other, "other_flights")
    IN  IF main = <<>> THEN QuotesOf(data.flights, "flights") ELSE main

\* A cheapest that is replaced also by an equal price (a faulty variant, for
\* comparison).
RECURSIVE CheapestOfLast(_, _)
CheapestOfLast(quotes, best) ==
    IF quotes = <<>> THEN best
    ELSE CheapestOfLast(Tail(quotes),
                        IF best = <<>> \/ quotes[1].price <= best[1].price
                        THEN <<quotes[1]>> ELSE best)

\* cheapest: replaced only by a strictly lower price.
RECURSIVE CheapestOf(_, _)
CheapestOf(quotes, best) ==
    IF quotes = <<>> THEN best
    ELSE CheapestOf(Tail(quotes),
                    IF best = <<>> \/ quotes[1].price < best[1].price
                    THEN <<quotes[1]>> ELSE best)

\* flights.sort((a, b) => a.price - b.price): a stable sort.
RECURSIVE InsertByPrice(_, _)
InsertByPrice(sorted, q) ==
    IF sorted = <<>> THEN <<q>>
    ELSE IF q.price < sorted[1].price THEN <<q>> \o sorted
    ELSE <<sorted[1]>> \o InsertByPrice(Tail(sorted), q)

RECURSIVE SortByPrice(_)
SortByPrice(quotes) ==
    IF quotes = <<>> THEN <<>>
    ELSE InsertByPrice(SortByPrice(SubSeq(quotes, 1, Len(quotes) - 1)), quotes[Len(quotes)])

\* A search that does not look at data.error (a faulty variant, for comparison).
searchNoErrorCheck(params, resp) ==
    IF ~resp.net THEN <<"error", "fetch failed">>
    ELSE IF ~resp.ok THEN <<"error", "SerpApi error">>
    ELSE IF resp.body.kind = "invalid" THEN <<"error", "Invalid JSON response from SerpApi">>
    ELSE LET quotes == Collected(resp.body)
         IN  <<"ok", [tag |-> "result",
                      cheapest |-> CheapestOf(quotes, <<>>),
                      all |-> SortByPrice(quotes),
                      searchParams |-> params]>>

\* The provider's answer is [net, ok, body]: net is FALSE when fetch itself
\* rejects; ok is response.ok; body is [kind, error, best, other, flights] with
\* kind "json" (an object) or "invalid" (text JSON.parse rejects), and error
\* TRUE when the object has a truthy error field.
\* search from the response on: <<"ok", result>> or <<"error", message>>.
search(params, resp) ==
    IF ~resp.net THEN <<"error", "fetch failed">>
    ELSE IF ~resp.ok THEN <<"error", "SerpApi error">>
    ELSE IF resp.body.kind = "invalid" THEN <<"error", "Invalid JSON response from SerpApi">>
    ELSE IF resp.body.error THEN <<"error", "SerpApi returned an error">>
    ELSE LET quotes == Collected(resp.body)
         IN  <<"ok", [tag |-> "result",
                      cheapest |-> CheapestOf(quotes, <<>>),
                      all |-> SortByPrice(quotes),
                      searchParams |-> params]>>

(* ------------------------------------------------------------ API routes *)
StationsTTL == 5 * 60000
WeatherTTL == 2 * 60000
FlightsTTL == 15 * 60000

StationsKey == <<"stations:v1">>
WxKey(id) == <<"wx:", id>>
\* `flights:${JSON.stringify(params)}`: the fields in order (an undefined one
\* is left out of the text, NoParam here).
FlightsKey(p) ==
    <<"flights:", p.from, p.to, p.outbound_date, p.return_date, p.type,
      p.deep_search, p.sort_by, p.stops>>

\* The params object the flights route builds from the query string.
ParamsOf(q) ==
    [from |-> q.from, to |-> q.to, outbound_date |-> q.outbound_date,
     return_date |-> q.return_date, type |-> q.type,
     deep_search |-> IF q.deep_search = "true" THEN "true" ELSE "false",
     sort_by |-> IF q.sort_by = NoParam THEN "2" ELSE q.sort_by,
     stops |-> q.stops]

\* A check that forgets outbound_date (a faulty variant, for comparison).
FlightsQueryValidNoDate(q) == q.from /= NoParam /\ q.to /= NoParam

\* if (!from || !to || !outbound_date)
FlightsQueryValid(q) == q.from /= NoParam /\ q.to /= NoParam /\ q.outbound_date /= NoParam

\* if (!id)
WeatherQueryValid(q) == q.station /= NoParam

ErrorBody(msg) == [tag |-> "error", error |-> msg]

\* A route answers: the handler is free again.
Answered(c, r, status, body, up, hit) ==
    /\ req' = [req EXCEPT ![c] = IdleReq]
    /\ last' = Answer(r, status, body, up, hit)

\* A route that never answers from the cache (a faulty variant, for comparison).
LookupNever(c, r, miss) ==
    /\ store' = getCacheStore(r.key)
    /\ miss

\* const c = getCache(key); if (c) return NextResponse.json(c); otherwise the
\* route goes on to `miss`.
Lookup(c, r, miss) ==
    /\ store' = getCacheStore(r.key)
    /\ IF getCache(r.key) /= Absent
       THEN /\ Answered(c, r, 200, getCache(r.key), "none", TRUE)
            /\ UNCHANGED <<stamps, admits>>
       ELSE miss

\* A new request takes a free handler and the next id.
Begin(c) ==
    /\ req[c].pc = "idle"
    /\ nCalls < MaxRequests
    /\ nCalls' = nCalls + 1
    /\ UNCHANGED <<now, ticks, lastOp, sets, calc>>

NewReq(ep, q, key) == [IdleReq EXCEPT !.id = nCalls + 1, !.ep = ep, !.q = q, !.key = key]

\* GET /api/stations, up to its first await.
StationsGET(c) ==
    /\ Begin(c)
    /\ LET r == NewReq("stations", NoQuery, StationsKey)
       IN  Lookup(c, r, rlFetchEnter(c, r))

\* GET /api/weather?station=.., up to its first await.
WeatherGET(c, q) ==
    /\ Begin(c)
    /\ IF ~WeatherQueryValid(q)
       THEN /\ Answered(c, NewReq("weather", q, <<>>), 400, ErrorBody("station required"),
                        "none", FALSE)
            /\ UNCHANGED <<store, stamps, admits>>
       ELSE LET r == NewReq("weather", q, WxKey(q.station))
            IN  Lookup(c, r, rlFetchEnter(c, r))

\* GET /api/flights?.., up to its first await: the provider's fetch is issued
\* at once (the flight provider has no limiter).
FlightsGET(c, q) ==
    /\ Begin(c)
    /\ IF ~FlightsQueryValid(q)
       THEN /\ Answered(c, NewReq("flights", q, <<>>), 400,
                        ErrorBody("from, to, and outbound_date are required"), "none", FALSE)
            /\ UNCHANGED <<store, stamps, admits>>
       ELSE LET r == NewReq("flights", q, FlightsKey(ParamsOf(q)))
            IN  Lookup(c, r, /\ req' = [req EXCEPT ![c] = [r EXCEPT !.pc = "searching"]]
                             /\ UNCHANGED <<stamps, admits, last>>)

\* The route after `await`: a result is stored and answered with 200, an error
\* that reaches the route is answered with 500 and nothing is stored.
Finish(c, res, ttl, up) ==
    /\ IF res[1] = "ok"
       THEN /\ store' = setCache(store, req[c].key, res[2], ttl)
            /\ Answered(c, req[c], 200, res[2], up, FALSE)
       ELSE /\ store' = store
            /\ Answered(c, req[c], 500, ErrorBody(res[2]), up, FALSE)
    /\ UNCHANGED <<now, ticks, stamps, nCalls, admits, lastOp, sets, calc>>

StationBodies == {<<[station_id |-> "A", latitude |-> 34, longitude |-> 118]>>}
HistoryBodies == {<<[timestamp |-> "valid", finite |-> TRUE, t9 |-> Deg(20)]>>}

\* WindBorne answers the request of GET /api/stations.
StationsResponse(c) ==
    /\ req[c].pc = "fetching"
    /\ req[c].ep = "stations"
    /\ \E resp \in WbResponses(BodyKinds, StationBodies) :
         Finish(c, getStations(rlFetchResult(resp)), StationsTTL, UpClass(resp))

\* WindBorne answers the request of GET /api/weather.
WeatherResponse(c) ==
    /\ req[c].pc = "fetching"
    /\ req[c].ep = "weather"
    /\ \E resp \in WbResponses(BodyKinds, HistoryBodies) :
         Finish(c, getHistory(rlFetchResult(resp)), WeatherTTL, UpClass(resp))

Offer(t, n) == [price |-> [t |-> t, n |-> n]]
SerpBody(kind, err, best, other, fl) ==
    [kind |-> kind, error |-> err, best |-> best, other |-> other, flights |-> fl]
SerpResponses ==
    {[net |-> FALSE, ok |-> FALSE, body |-> SerpBody("invalid", FALSE, <<>>, <<>>, <<>>)],
     [net |-> TRUE, ok |-> FALSE, body |-> SerpBody("json", TRUE, <<>>, <<>>, <<>>)],
     [net |-> TRUE, ok |-> TRUE, body |-> SerpBody("invalid", FALSE, <<>>, <<>>, <<>>)],
     [net |-> TRUE, ok |-> TRUE, body |-> SerpBody("json", TRUE, <<>>, <<>>, <<>>)],
     [net |-> TRUE, ok |-> TRUE, body |-> SerpBody("json", FALSE, <<>>, <<>>, <<>>)],
     [net |-> TRUE, ok |-> TRUE,
      body |-> SerpBody("json", FALSE, <<Offer("num", 120)>>, <<Offer("str", 80)>>, <<>>)]}

SerpUpClass(resp) ==
    IF ~resp.net THEN "network"
    ELSE IF ~resp.ok THEN "status"
    ELSE IF resp.body.kind = "invalid" THEN "garbage"
    ELSE IF resp.body.error THEN "errorfield"
    ELSE "flights"

\* SerpApi answers the request of GET /api/flights.
FlightsResponse(c) ==
    /\ req[c].pc = "searching"
    /\ \E resp \in SerpResponses :
         Finish(c, search(ParamsOf(req[c].q), resp), FlightsTTL, SerpUpClass(resp))

StationIds == {"A"}
WeatherQueries == [station : {NoParam} \cup StationIds]
FullQuery ==
    [from |-> "SFO", to |-> "LAX", outbound_date |-> "2025-12-15", return_date |-> NoParam,
     type |-> NoParam, deep_search |-> NoParam, sort_by |-> NoParam, stops |-> NoParam]
FlightQueries ==
    {FullQuery, [FullQuery EXCEPT !.from = NoParam], [FullQuery EXCEPT !.to = NoParam],
     [FullQuery EXCEPT !.outbound_date = NoParam]}

Init ==
    /\ now = 1
    /\ ticks = 0
    /\ stamps \in {<<>>, Prefill(LIMIT, 1)}
    /\ store = EmptyStore
    /\ req = [c \in Callers |-> IdleReq]
    /\ nCalls = 0
    /\ admits = [i \in 1..Len(stamps) |-> <<0, stamps[i]>>]
    /\ lastOp = [op |-> "none"]
    /\ sets = EmptyStore
    /\ last = NoAnswer
    /\ calc = NoCalc

Next ==
    \/ \E c \in Callers : StationsGET(c)
    \/ \E c \in Callers, q \in WeatherQueries : WeatherGET(c, q)
    \/ \E c \in Callers, q \in FlightQueries : FlightsGET(c, q)
    \/ \E c \in Callers : Wake(c)
    \/ \E c \in Callers : StationsResponse(c)
    \/ \E c \in Callers : WeatherResponse(c)
    \/ \E c \in Callers : FlightsResponse(c)
    \/ Tick

Spec == Init /\ [][Next]_vars

(* ---- claims about the routes ---- *)
UpstreamPcs == {"fetching", "searching"}
\* The handlers whose invocation began in this step.
Started == {c \in Callers : req'[c].id = nCalls' /\ nCalls' = nCalls + 1}
\* This step is the answer to an invocation that had made an upstream request.
FinishedUpstream == \E c \in Callers : req[c].pc \in UpstreamPcs /\ req'[c].pc = "idle"
Fresh(k) == k \in DOMAIN store /\ now <= store[k].exp

\* C2 (as claimed): requests for one key are coalesced, so the upstream
\* requests outstanding at any moment are for different keys.
C2_Coalesced ==
    \A c, d \in Callers :
        (c /= d /\ req[c].pc \in UpstreamPcs /\ req[d].pc \in UpstreamPcs)
            => req[c].key /= req[d].key

\* C2 (amended): a request that arrives when its key has an unexpired entry is
\* answered 200 with the stored value and makes no upstream request (no
\* handler suspends, no timestamp is recorded); only a request that finds no
\* unexpired entry goes upstream.
C2_ServedFromFilledCache ==
    [][/\ \A c \in Started : ~Fresh(req'[c].key)
       /\ (nCalls' = nCalls + 1 /\ last'.id = nCalls' /\ last'.status /= 400) =>
            /\ Fresh(last'.key)
            /\ last'.hit /\ last'.up = "none" /\ last'.status = 200
            /\ last'.body = store[last'.key].v
            /\ req' = req /\ stamps' = stamps /\ store' = store]_vars

\* A second request for a key was answered from the entry the first one stored.
C2_Witness ==
    /\ last.hit /\ last.id = 2 /\ last.status = 200
    /\ last.key \in DOMAIN store /\ last.body = store[last.key].v

FailureClasses == {"status", "empty", "blank", "garbage", "errorfield"}

\* C6: the answer to an upstream failure (non-2xx, empty or unrepairable body,
\* error payload) stores nothing: the step leaves the cache as it was.
C6_NoEntryOnFailure ==
    [][(FinishedUpstream /\ last'.up \in FailureClasses) => store' = store]_vars

\* C7: GET /api/weather whose upstream request got a non-2xx status answers
\* 500 with an {error} body.
C7_WeatherNon2xxIs500 ==
    (last.ep = "weather" /\ last.up = "status")
        => (last.status = 500 /\ last.body.tag = "error")

\* C8: an empty or whitespace-only WindBorne body ends in an error for the
\* caller of the station listing and of the history listing, never in a list.
C8_EmptyBodyIsError ==
    (last.ep \in {"stations", "weather"} /\ last.up \in {"empty", "blank"})
        => (last.status = 500 /\ last.body.tag = "error")

\* The query lacks a required parameter.
Lacks(ep, q) ==
    \/ ep = "flights" /\ (q.from = NoParam \/ q.to = NoParam \/ q.outbound_date = NoParam)
    \/ ep = "weather" /\ q.station = NoParam

\* C9: a /flights request without from, to or outbound_date, and a /weather
\* request without station, is answered 400 in the step it arrives in, and
\* that step leaves the cache, the limiter window and every handler as they
\* were (no lookup, no write, no upstream request); no handler is ever
\* suspended for such a request.
C9_RejectedBeforeAnything ==
    /\ [](Lacks(last.ep, last.q) => (last.status = 400 /\ last.up = "none" /\ ~last.hit))
    /\ [](\A c \in Callers : ~Lacks(req[c].ep, req[c].q))
    /\ [][(nCalls' = nCalls + 1 /\ last'.id = nCalls' /\ Lacks(last'.ep, last'.q)) =>
            (store' = store /\ stamps' = stamps /\ admits' = admits /\ req' = req)]_vars

\* A request lacking a parameter was rejected while the cache held an expired
\* entry, which is still there.
C9_Witness ==
    /\ last.status = 400 /\ Lacks(last.ep, last.q)
    /\ \E k \in DOMAIN store : now > store[k].exp

\* C10: a 2xx SerpApi answer whose body has a (truthy) error field makes
\* GET /api/flights answer 500 with an {error} body, not a result, and the
\* step stores nothing.
C10_ErrorPayloadRaised ==
    /\ []((last.ep = "flights" /\ last.up = "errorfield")
            => (last.status = 500 /\ last.body.tag = "error"))
    /\ [][(FinishedUpstream /\ last'.ep = "flights" /\ last'.up = "errorfield")
            => store' = store]_vars

C10_Witness ==
    /\ last.ep = "flights" /\ last.up = "errorfield" /\ last.status = 500
    /\ last.key \notin DOMAIN store

(* ------------------------------- the history listing and clean, by calls *)
Reading(ts, fin, deg) == [timestamp |-> ts, finite |-> fin, t9 |-> Deg(deg)]
Degrees == {0 - 60, 0 - 50, 20, 31, 45, 50, 51, 68, 110, 120}
\* Records a batch can hold: readings with a valid timestamp, one whose
\* timestamp is not a date, one whose temperature is not a finite number.
Readings ==
    {Reading("valid", TRUE, d) : d \in Degrees}
    \cup {Reading("invalid", TRUE, 20), Reading("valid", FALSE, 0)}
ReadingsOf(degs) == [i \in 1..Len(degs) |-> Reading("valid", TRUE, degs[i])]
Batches ==
    UNION {[1..k -> Readings] : k \in 0..MaxBatch}
    \cup {ReadingsOf(<<68, 70, 72, 75, 80>>), ReadingsOf(<<68, 70, 72, 75, 80, 85>>),
          ReadingsOf(<<15, 18, 20, 22>>)}

\* How the provider answers a history request: the batch as a bare array, as
\* {"points": [..]}, as the fragment "points": [..]; a non-2xx status; a text
\* nothing repairs; an object without points.
ListForms == {"array", "object", "fragment"}
Forms == ListForms \cup {"status", "garbage", "other"}
ResponseOf(form, batch) ==
    [net |-> TRUE, ok |-> form /= "status", status |-> IF form = "status" THEN 500 ELSE 200,
     text |-> IF form = "status" THEN TextOf("other", <<>>) ELSE TextOf(form, batch)]

\* A behaviour is one call: it starts with the argument chosen, calc =
\* Pending(arg), and the call gives calc its result.
Pending(arg) == [fn |-> "pending", in |-> arg]

\* clean(arr) is called; filter builds a new array and leaves arr alone.
CleanCall ==
    /\ calc.fn = "pending"
    /\ calc' = [fn |-> "clean", in |-> calc.in, arr |-> calc.in, out |-> clean(calc.in)]
    /\ UNCHANGED <<now, ticks, stamps, store, req, nCalls, admits, lastOp, sets, last>>

\* getHistory(stationId) is called and the provider answers (the limiter has
\* room): what it resolves to.
HistoryCall ==
    /\ calc.fn = "pending"
    /\ \E form \in Forms :
         calc' = [fn |-> "getHistory", in |-> [form |-> form, batch |-> calc.in],
                  out |-> getHistory(rlFetchText(ResponseOf(form, calc.in)))[2].items]
    /\ UNCHANGED <<now, ticks, stamps, store, req, nCalls, admits, lastOp, sets, last>>

InitWx ==
    /\ now = 1
    /\ ticks = 0
    /\ stamps = <<>>
    /\ store = EmptyStore
    /\ req = [c \in Callers |-> IdleReq]
    /\ nCalls = 0
    /\ admits = <<>>
    /\ lastOp = [op |-> "none"]
    /\ sets = EmptyStore
    /\ last = NoAnswer
    /\ calc \in {Pending(b) : b \in Batches}

NextWx ==
    \/ CleanCall
    \/ HistoryCall

SpecWx == InitWx /\ [][NextWx]_vars

(* ---- claims about the history listing ---- *)
InRange50(p) == p.t9 >= Deg(0 - 50) /\ p.t9 <= Deg(50)
Acceptable(p) == p.timestamp = "valid" /\ p.finite /\ InRange50(p)
Listed == calc.fn = "getHistory" /\ calc.in.form \in ListForms

\* C11: every observation getHistory returns has a timestamp that is a valid
\* instant and a finite temperature with -50 <= temperature <= 50, whatever
\* the batch, the form of the answer and the unit decision were.
C11_ReturnedInRange ==
    calc.fn = "getHistory" =>
        \A i \in 1..Len(calc.out) : Acceptable(calc.out[i])

\* A batch classified Fahrenheit was listed: some of its records were
\* converted and returned, others were dropped.
C11_Witness ==
    /\ Listed
    /\ Temps(calc.in.batch) /= <<>>
    /\ likelyFahrenheit(Temps(calc.in.batch))
    /\ Len(calc.out) >= 1
    /\ Len(calc.out) < Len(calc.in.batch)

\* C12: clean(arr) returns, in their order in arr and as they are in arr, exactly
\* the records of arr with a valid timestamp and a finite temperature in
\* [-50, 50]; arr is as it was; and clean of the result is the result.
C12_PureFilter ==
    calc.fn = "clean" =>
        LET arr == calc.in
            out == calc.out
            keep == {i \in 1..Len(arr) : Acceptable(arr[i])}
            Nth(j) == CHOOSE i \in keep : Cardinality({k \in keep : k <= i}) = j
        IN  /\ Len(out) = Cardinality(keep)
            /\ \A j \in 1..Len(out) : out[j] = arr[Nth(j)]
            /\ calc.arr = arr
            /\ clean(out) = out

\* clean dropped a record from the middle of a batch and kept a reading of
\* exactly 50 next to one of 51.
C12_Witness ==
    /\ calc.fn = "clean"
    /\ Len(calc.in) = 3
    /\ Len(calc.out) = 2
    /\ ~Acceptable(calc.in[2])
    /\ calc.in[2].t9 = Deg(51)
    /\ calc.out[2].t9 = Deg(50)

OneAt20 == <<Reading("valid", TRUE, 20)>>

\* C13: the body "points": [one valid observation of 20 degrees], without the
\* enclosing braces, is rejected by JSON.parse, is parsed after being wrapped
\* in an object, and getHistory returns exactly that observation, its
\* temperature still 20; and a fragment of any batch is listed as the same
\* batch inside a well-formed object is.
C13_FragmentRepaired ==
    (calc.fn = "getHistory" /\ calc.in.form = "fragment") =>
        LET batch == calc.in.batch
            resp == ResponseOf("fragment", batch)
        IN  /\ JSONparse(resp.text)[1] = "error"
            /\ JSONparse(WrapAfterColon(resp.text)) = <<"ok", [shape |-> "points", pts |-> batch]>>
            /\ rlFetchText(resp) = JSONparse(ResponseOf("object", batch).text)
            /\ calc.out = HistoryOf([shape |-> "points", pts |-> batch])
            /\ batch = OneAt20 => calc.out = OneAt20

\* The fragment with the one observation was answered and listed.
C13_Witness ==
    /\ calc.fn = "getHistory"
    /\ calc.in.form = "fragment"
    /\ calc.in.batch = OneAt20
    /\ calc.out = OneAt20

\* The four conditions, over the finite readings (in ninths of a degree).
FourConditions(temps) ==
    LET n == Len(temps)
        idx == 1..n
        inBand == Cardinality({i \in idx : temps[i] >= Deg(32) /\ temps[i] <= Deg(100)})
        sum == SumSeq(temps)
    IN  \/ 10 * inBand > 7 * n
        \/ /\ sum >= Deg(32) * n /\ sum <= Deg(100) * n
           /\ \A i \in idx : temps[i] < Deg(130)
        \/ inBand = n /\ n > 5
        \/ /\ \E i \in idx : temps[i] > Deg(50)
           /\ \A i \in idx : temps[i] < Deg(130)
           /\ sum > Deg(40) * n
\* c is d with its reading f replaced by (f - 32) * 5 / 9.
IsConverted(d, c) ==
    /\ 9 * c.t9 = 5 * (d.t9 - Deg(32))
    /\ c.timestamp = d.timestamp /\ c.finite
AllInBand(batch) ==
    \A i \in 1..Len(batch) :
        batch[i].finite => (batch[i].t9 >= Deg(32) /\ batch[i].t9 <= Deg(100))

\* C14: a batch with finite readings is classified Fahrenheit exactly when one
\* of the four conditions holds; then the listing is what clean keeps of the
\* batch with every finite reading f replaced by (f - 32) * 5 / 9; and a batch
\* whose finite readings all lie in [32, 100] is so classified and converted.
C14_FahrenheitRule ==
    (Listed /\ Temps(calc.in.batch) /= <<>>) =>
        LET batch == calc.in.batch
            temps == Temps(batch)
            conv == [i \in 1..Len(batch) |->
                       IF batch[i].finite
                       THEN [batch[i] EXCEPT !.t9 = (5 * (batch[i].t9 - Deg(32))) \div 9]
                       ELSE batch[i]]
        IN  /\ likelyFahrenheit(temps) <=> FourConditions(temps)
            /\ FourConditions(temps) =>
                 /\ calc.out = SelectSeq(conv, Acceptable)
                 /\ \A i \in 1..Len(batch) : batch[i].finite => IsConverted(batch[i], conv[i])
            /\ AllInBand(batch) => FourConditions(temps)

\* The batch [68, 70, 72, 75, 80] was listed as [20, 21.1, 22.2, 23.9, 26.7].
C14_Witness ==
    /\ Listed
    /\ calc.in.batch = ReadingsOf(<<68, 70, 72, 75, 80>>)
    /\ Len(calc.out) = 5
    /\ calc.out[1].t9 = Deg(20)
    /\ calc.out[2].t9 = 190

(* ---------------------------------------------------------------- scoring *)
\* A JavaScript number handed to a score: a finite one (whole dollars,
\* minutes, degrees), or NaN, Infinity, -Infinity.
Fin(n) == [fin |-> TRUE, v |-> n]
NaN == [fin |-> FALSE, v |-> 0]
PosInf == [fin |-> FALSE, v |-> 1]
NegInf == [fin |-> FALSE, v |-> 0 - 1]

\* The numbers the scores compute are exact fractions <<n, d>>, d > 0, in
\* lowest terms.
RECURSIVE GCD(_, _)
GCD(a, b) == IF b = 0 THEN a ELSE GCD(b, a % b)
Abs(n) == IF n < 0 THEN 0 - n ELSE n
Q(n, d) ==
    LET sn == IF d < 0 THEN 0 - n ELSE n
        sd == Abs(d)
        g == GCD(Abs(sn), sd)
    IN  <<sn \div g, sd \div g>>
QAdd(a, b) == Q(a[1] * b[2] + b[1] * a[2], a[2] * b[2])
QSub(a, b) == Q(a[1] * b[2] - b[1] * a[2], a[2] * b[2])
QMul(a, b) == Q(a[1] * b[1], a[2] * b[2])
QDiv(a, b) == Q(a[1] * b[2], a[2] * b[1])
QLe(a, b) == a[1] * b[2] <= b[1] * a[2]
QLt(a, b) == a[1] * b[2] < b[1] * a[2]
QMin(a, b) == IF QLe(a, b) THEN a ELSE b
QMax(a, b) == IF QLe(a, b) THEN b ELSE a

\* A temperature score without the cap and the floor (a faulty variant, for
\* comparison).
weatherScoreNoFloor(temp, min, max) ==
    IF temp >= min /\ temp <= max THEN Q(100, 1)
    ELSE LET distanceFromIdeal == IF temp < min THEN min - temp ELSE temp - max
             range == max - min
             referenceRange == IF range > 5 THEN range ELSE 5
         IN  QSub(Q(100, 1), QMul(Q(distanceFromIdeal, referenceRange), Q(50, 1)))

\* weatherScore(temp, {min, max})
weatherScore(temp, min, max) ==
    IF temp >= min /\ temp <= max THEN Q(100, 1)
    ELSE LET distanceFromIdeal ==
                 IF temp < min THEN min - temp ELSE IF temp > max THEN temp - max ELSE 0
             range == max - min
             referenceRange == IF range > 5 THEN range ELSE 5
             normalizedDistance == Q(distanceFromIdeal, referenceRange)
             penalty == QMin(QMul(normalizedDistance, Q(50, 1)), Q(95, 1))
         IN  QMax(Q(5, 1), QSub(Q(100, 1), penalty))

\* A guard that lets negative numbers through (a faulty variant, for
\* comparison).
InvalidZeroOnly(x) == ~x.fin \/ x.v = 0

\* !Number.isFinite(x) || x <= 0
Invalid(x) == ~x.fin \/ x.v <= 0

\* A price score whose penalty stays linear beyond 50% (a faulty variant, for
\* comparison).
priceScoreLinear(price, budget) ==
    IF Invalid(price) \/ Invalid(budget) THEN Q(0, 1)
    ELSE IF price.v <= budget.v THEN Q(100, 1)
    ELSE QMax(Q(5, 1), QSub(Q(100, 1),
              QMin(QMul(QSub(Q(price.v, budget.v), Q(1, 1)), Q(100, 1)), Q(95, 1))))

\* priceScore(price, budget)
priceScore(price, budget) ==
    IF Invalid(price) THEN Q(0, 1)
    ELSE IF Invalid(budget) THEN Q(0, 1)
    ELSE IF price.v <= budget.v
    THEN IF price.v = budget.v THEN Q(100, 1)
         ELSE LET ratio == Q(price.v, budget.v)
              IN  IF QLe(Q(4, 5), ratio)
                  THEN QAdd(Q(95, 1), QMul(QSub(ratio, Q(4, 5)), Q(25, 1)))
                  ELSE IF QLe(Q(1, 2), ratio)
                  THEN QAdd(Q(85, 1), QMul(QSub(ratio, Q(1, 2)), Q(3333, 100)))
                  ELSE QAdd(Q(70, 1), QMul(QDiv(ratio, Q(1, 2)), Q(15, 1)))
    ELSE LET excessRatio == Q(price.v, budget.v)
             overBudgetRatio == QSub(excessRatio, Q(1, 1))
             penalty == QMin(QMul(overBudgetRatio, Q(100, 1)), Q(95, 1))
             finalPenalty ==
                 IF QLt(Q(1, 2), overBudgetRatio)
                 THEN QMin(QAdd(Q(50, 1), QMul(QSub(overBudgetRatio, Q(1, 2)), Q(90, 1))),
                           Q(95, 1))
                 ELSE penalty
         IN  QMax(Q(5, 1), QSub(Q(100, 1), finalPenalty))

\* A duration score whose penalty keeps the first slope beyond 50% (a faulty
\* variant, for comparison).
durationScoreOneSlope(durationMinutes, shortestDurationMinutes) ==
    IF Invalid(durationMinutes) \/ Invalid(shortestDurationMinutes) THEN Q(0, 1)
    ELSE IF durationMinutes.v <= shortestDurationMinutes.v THEN Q(100, 1)
    ELSE LET over == QSub(Q(durationMinutes.v, shortestDurationMinutes.v), Q(1, 1))
         IN  QMax(Q(5, 1), QSub(Q(100, 1), QMin(QMul(over, Q(80, 1)), Q(95, 1))))

\* durationScore(durationMinutes, shortestDurationMinutes)
durationScore(durationMinutes, shortestDurationMinutes) ==
    IF Invalid(durationMinutes) THEN Q(0, 1)
    ELSE IF Invalid(shortestDurationMinutes) THEN Q(0, 1)
    ELSE IF durationMinutes.v = shortestDurationMinutes.v THEN Q(100, 1)
    ELSE IF durationMinutes.v < shortestDurationMinutes.v THEN Q(100, 1)
    ELSE LET durationRatio == Q(durationMinutes.v, shortestDurationMinutes.v)
             overShortestRatio == QSub(durationRatio, Q(1, 1))
             linear == QMul(overShortestRatio, Q(80, 1))
             penalty ==
                 IF QLt(Q(1, 2), overShortestRatio)
                 THEN QAdd(Q(40, 1), QMul(QSub(overShortestRatio, Q(1, 2)), Q(100, 1)))
                 ELSE linear
         IN  QMax(Q(5, 1), QSub(Q(100, 1), QMin(penalty, Q(95, 1))))

\* The earlier two-factor weighting, 60% temperature and 40% price (a faulty
\* variant, for comparison).
compositeTwoFactor(temp, price, min, max, budget, durationMinutes, shortestDurationMinutes) ==
    QAdd(QMul(weatherScore(temp, min, max), Q(6, 10)),
         QMul(priceScore(price, budget), Q(4, 10)))

\* composite(temp, price, pref, budget, durationMinutes, shortestDurationMinutes)
composite(temp, price, min, max, budget, durationMinutes, shortestDurationMinutes) ==
    LET tempScore == weatherScore(temp, min, max)
        priceScoreVal == priceScore(price, budget)
        durationScoreVal == durationScore(durationMinutes, shortestDurationMinutes)
    IN  QAdd(QAdd(QMul(priceScoreVal, Q(4, 10)), QMul(tempScore, Q(3, 10))),
             QMul(durationScoreVal, Q(3, 10)))

(* ------------------------------------------------ the scores, by calls *)
\* Arguments of one call: f names the function; the fields it does not take
\* are left at a default.
Args(f, temp, pref, price, budget, dur, shortest) ==
    [f |-> f, temp |-> temp, min |-> pref[1], max |-> pref[2], price |-> price,
     budget |-> budget, durationMinutes |-> dur, shortestDurationMinutes |-> shortest]
Prefs == {<<15, 25>>, <<20, 22>>, <<18, 18>>}
TempRange == (15 - MaxDist)..(25 + MaxDist)
Budgets == {10, 20}
Shortests == {20, 60}
\* Numbers no score accepts: not finite, zero, negative.
Odd == {NaN, PosInf, NegInf, Fin(0), Fin(0 - 5)}
WeatherArgs ==
    {Args("weatherScore", t, pr, Fin(1), Fin(1), Fin(1), Fin(1)) : t \in TempRange, pr \in Prefs}
PriceArgs ==
    {Args("priceScore", 0, <<0, 0>>, Fin(pv), Fin(b), Fin(1), Fin(1)) :
        pv \in 1..(MaxOver * 20), b \in Budgets}
    \cup {Args("priceScore", 0, <<0, 0>>, x, y, Fin(1), Fin(1)) :
            x \in Odd \cup {Fin(8)}, y \in Odd}
    \cup {Args("priceScore", 0, <<0, 0>>, x, Fin(10), Fin(1), Fin(1)) : x \in Odd}
DurationArgs ==
    {Args("durationScore", 0, <<0, 0>>, Fin(1), Fin(1), Fin(d), Fin(sh)) :
        d \in 1..(MaxOver * 60), sh \in Shortests}
    \cup {Args("durationScore", 0, <<0, 0>>, Fin(1), Fin(1), x, y) :
            x \in Odd \cup {Fin(90)}, y \in Odd}
    \cup {Args("durationScore", 0, <<0, 0>>, Fin(1), Fin(1), x, Fin(60)) : x \in Odd}
CompositeArgs ==
    {Args("composite", t, <<15, 25>>, pr, b, d, sh) :
        t \in {10, 20, 40},
        pr \in Odd \cup {Fin(5), Fin(9), Fin(10), Fin(12), Fin(18), Fin(30)},
        b \in {Fin(10), NaN, Fin(0)},
        d \in Odd \cup {Fin(20), Fin(25), Fin(40), Fin(70)},
        sh \in {Fin(20), Fin(0), PosInf}}

WeatherScoreCall ==
    /\ calc.fn = "pending" /\ calc.in.f = "weatherScore"
    /\ calc' = [fn |-> "weatherScore", in |-> calc.in, calls |-> 1,
                out |-> weatherScore(calc.in.temp, calc.in.min, calc.in.max)]
    /\ UNCHANGED <<now, ticks, stamps, store, req, nCalls, admits, lastOp, sets, last>>

PriceScoreCall ==
    /\ calc.fn = "pending" /\ calc.in.f = "priceScore"
    /\ calc' = [fn |-> "priceScore", in |-> calc.in, calls |-> 1,
                out |-> priceScore(calc.in.price, calc.in.budget)]
    /\ UNCHANGED <<now, ticks, stamps, store, req, nCalls, admits, lastOp, sets, last>>

DurationScoreCall ==
    /\ calc.fn = "pending" /\ calc.in.f = "durationScore"
    /\ calc' = [fn |-> "durationScore", in |-> calc.in, calls |-> 1,
                out |-> durationScore(calc.in.durationMinutes,
                                      calc.in.shortestDurationMinutes)]
    /\ UNCHANGED <<now, ticks, stamps, store, req, nCalls, admits, lastOp, sets, last>>

CompositeOf(a) ==
    composite(a.temp, a.price, a.min, a.max, a.budget, a.durationMinutes,
              a.shortestDurationMinutes)

\* composite is called, and called once more with the same arguments; prev is
\* what the call before returned.
CompositeCall ==
    /\ \/ calc.fn = "pending" /\ calc.in.f = "composite"
       \/ calc.fn = "composite" /\ calc.calls = 1
    /\ calc' = [fn |-> "composite", in |-> calc.in,
                calls |-> IF calc.fn = "pending" THEN 1 ELSE 2,
                prev |-> IF calc.fn = "pending" THEN Q(0 - 1, 1) ELSE calc.out,
                out |-> CompositeOf(calc.in)]
    /\ UNCHANGED <<now, ticks, stamps, store, req, nCalls, admits, lastOp, sets, last>>

InitScore ==
    /\ now = 1
    /\ ticks = 0
    /\ stamps = <<>>
    /\ store = EmptyStore
    /\ req = [c \in Callers |-> IdleReq]
    /\ nCalls = 0
    /\ admits = <<>>
    /\ lastOp = [op |-> "none"]
    /\ sets = EmptyStore
    /\ last = NoAnswer
    /\ calc \in {Pending(a) : a \in WeatherArgs \cup PriceArgs \cup DurationArgs \cup CompositeArgs}

NextScore ==
    \/ WeatherScoreCall
    \/ PriceScoreCall
    \/ DurationScoreCall
    \/ CompositeCall

SpecScore == InitScore /\ [][NextScore]_vars

(* ---- claims about the scores ---- *)
Hundred == <<100, 1>>
Five == <<5, 1>>
Zero == <<0, 1>>
\* Distance of a temperature to the nearest bound of the band.
DistTo(temp, min, max) ==
    IF temp < min THEN min - temp ELSE IF temp > max THEN temp - max ELSE 0

Valid(x) == x.fin /\ x.v > 0

C19_MalformedScoresZero ==
    /\ (calc.fn = "priceScore" /\ (~Valid(calc.in.price) \/ ~Valid(calc.in.budget)))
          => calc.out = Zero
    /\ (calc.fn = "durationScore" /\ (~Valid(calc.in.durationMinutes)
                                        \/ ~Valid(calc.in.shortestDurationMinutes)))
          => calc.out = Zero
    /\ calc.fn = "composite" =>
          LET a == calc.in
              badPrice == ~Valid(a.price) \/ ~Valid(a.budget)
              badDur == ~Valid(a.durationMinutes) \/ ~Valid(a.shortestDurationMinutes)
              ps == IF badPrice THEN Zero ELSE priceScore(a.price, a.budget)
              ts == weatherScore(a.temp, a.min, a.max)
              ds == IF badDur THEN Zero
                    ELSE durationScore(a.durationMinutes, a.shortestDurationMinutes)
          IN  QMul(calc.out, <<10, 1>>)
                = QAdd(QAdd(QMul(ps, <<4, 1>>), QMul(ts, <<3, 1>>)), QMul(ds, <<3, 1>>))

\* composite was called with the price Infinity (no flight found) and good
\* durations: 0.4 * 0 + 0.3 * 100 + 0.3 * 100 = 60.
C19_Witness ==
    /\ calc.fn = "composite"
    /\ calc.in.price = PosInf /\ calc.in.budget = Fin(10) /\ calc.in.temp = 20
    /\ calc.in.durationMinutes = Fin(20) /\ calc.in.shortestDurationMinutes = Fin(20)
    /\ calc.out = <<60, 1>>

(* ------------------------------------------------- search, by calls *)
\* Offers as the provider prices them: numbers (one of them negative), a
\* string, {value: ..}, the number 0 and a missing price (both skipped).
Offers ==
    {Offer("num", 80), Offer("num", 120), Offer("str", 80), Offer("value", 50),
     Offer("num", 0), Offer("none", 0), Offer("num", 0 - 5)}
BestLists == UNION {[1..k -> Offers] : k \in 0..MaxOffers}
OtherLists == {<<>>, <<Offer("num", 80)>>, <<Offer("num", 100)>>, <<Offer("none", 0)>>}
FallbackLists == {<<>>, <<Offer("num", 80)>>, <<Offer("num", 90), Offer("price", 80)>>}
SearchBodies ==
    {SerpBody("json", FALSE, b, o, f) : b \in BestLists, o \in OtherLists, f \in FallbackLists}

\* provider.search(params) is called and SerpApi answers 200 with the body.
SearchCall ==
    /\ calc.fn = "pending"
    /\ calc' = [fn |-> "search", in |-> calc.in,
                out |-> search(ParamsOf(FullQuery), [net |-> TRUE, ok |-> TRUE, body |-> calc.in])]
    /\ UNCHANGED <<now, ticks, stamps, store, req, nCalls, admits, lastOp, sets, last>>

InitSearch ==
    /\ now = 1
    /\ ticks = 0
    /\ stamps = <<>>
    /\ store = EmptyStore
    /\ req = [c \in Callers |-> IdleReq]
    /\ nCalls = 0
    /\ admits = <<>>
    /\ lastOp = [op |-> "none"]
    /\ sets = EmptyStore
    /\ last = NoAnswer
    /\ calc \in {Pending(b) : b \in SearchBodies}

NextSearch == SearchCall

SpecSearch == InitSearch /\ [][NextSearch]_vars

(* ---- claims about search ---- *)
\* Provider order: best_flights, then other_flights, then flights; within a
\* list, by position.
ListRank(name) == IF name = "best_flights" THEN 1 ELSE IF name = "other_flights" THEN 2 ELSE 3
Before(q1, q2) ==
    \/ ListRank(q1.list) < ListRank(q2.list)
    \/ q1.list = q2.list /\ q1.pos <= q2.pos

\* C20: `all` is in non-decreasing price order; cheapest is null exactly when
\* `all` is empty; otherwise cheapest is the first element of `all`, no element
\* of `all` has a lower price, and among the elements with that price it is
\* the one that came first in provider order.
C20_SortedAndCheapest ==
    (calc.fn = "search" /\ calc.out[1] = "ok") =>
        LET all == calc.out[2].all
            cheapest == calc.out[2].cheapest
        IN  /\ \A i, j \in 1..Len(all) : i < j => all[i].price <= all[j].price
            /\ (cheapest = <<>>) <=> (all = <<>>)
            /\ all /= <<>> =>
                 /\ cheapest[1] = all[1]
                 /\ \A i \in 1..Len(all) :
                      /\ cheapest[1].price <= all[i].price
                      /\ all[i].price = cheapest[1].price => Before(cheapest[1], all[i])

\* A search listed four quotes, the lowest price quoted twice in best_flights
\* and once in other_flights.
C20_Witness ==
    /\ calc.fn = "search"
    /\ calc.out[1] = "ok"
    /\ Len(calc.out[2].all) = 4
    /\ calc.out[2].all[1].price = 80
    /\ calc.out[2].all[2].price = 80
    /\ calc.out[2].all[3].price = 80
    /\ calc.out[2].all[3].list = "other_flights"
    /\ calc.out[2].cheapest[1].list = "best_flights"
    /\ calc.out[2].cheapest[1].pos = 2

\* C21: every quote in the result of search has a price above 0 (an offer
\* whose price field yields no finite positive number leaves no quote).
C21_PositivePrices ==
    (calc.fn = "search" /\ calc.out[1] = "ok") =>
        \A i \in 1..Len(calc.out[2].all) : calc.out[2].all[i].price > 0

(* ------------------------------------------- the provider query, by calls *)
\* The earlier query: type is sent only for a round trip, with or without a
\* return date (a faulty variant, for comparison).
SerpQueryEarlier(params) ==
    [departure_id |-> params.from, arrival_id |-> params.to,
     outbound_date |-> params.outbound_date,
     type |-> IF params.type = "round-trip" THEN "1" ELSE NoParam,
     return_date |-> IF params.type = "round-trip" /\ params.return_date \notin {NoParam, ""}
                     THEN params.return_date ELSE NoParam,
     deep_search |-> IF params.deep_search = "true" THEN "true" ELSE NoParam,
     sort_by |-> IF params.sort_by /= NoParam THEN params.sort_by ELSE "2",
     stops |-> params.stops]

\* The URLSearchParams search builds (a parameter that is not set is NoParam;
\* engine, api_key, hl, gl and currency are fixed and left out).
\* `if (params.return_date)`: undefined and "" are falsy.
SerpQuery(params) ==
    LET base == [departure_id |-> params.from, arrival_id |-> params.to,
                 outbound_date |-> params.outbound_date,
                 type |-> NoParam, return_date |-> NoParam,
                 deep_search |-> IF params.deep_search = "true" THEN "true" ELSE NoParam,
                 sort_by |-> IF params.sort_by /= NoParam THEN params.sort_by ELSE "2",
                 stops |-> params.stops]
    IN  IF params.type = "round-trip"
        THEN IF params.return_date \notin {NoParam, ""}
             THEN [base EXCEPT !.type = "1", !.return_date = params.return_date]
             ELSE [base EXCEPT !.type = "2"]
        ELSE [base EXCEPT !.type = "2"]

\* The params a caller of search can pass.
SearchParams ==
    [from : {"SFO"}, to : {"LAX"}, outbound_date : {"2025-12-15"},
     return_date : {NoParam, "", "2025-12-20"},
     type : {NoParam, "one-way", "round-trip"},
     deep_search : {"true", "false"},
     sort_by : {NoParam, "0", "1", "2"},
     stops : {NoParam, "1"}]

\* search(params) up to its fetch: the query it sends.
QueryCall ==
    /\ calc.fn = "pending"
    /\ calc' = [fn |-> "query", in |-> calc.in, out |-> SerpQuery(calc.in)]
    /\ UNCHANGED <<now, ticks, stamps, store, req, nCalls, admits, lastOp, sets, last>>

InitQuery ==
    /\ now = 1
    /\ ticks = 0
    /\ stamps = <<>>
    /\ store = EmptyStore
    /\ req = [c \in Callers |-> IdleReq]
    /\ nCalls = 0
    /\ admits = <<>>
    /\ lastOp = [op |-> "none"]
    /\ sets = EmptyStore
    /\ last = NoAnswer
    /\ calc \in {Pending(a) : a \in SearchParams}

NextQuery == QueryCall

SpecQuery == InitQuery /\ [][NextQuery]_vars

C23_OneRequestNoRetry ==
    /\ [](\A id \in AdmitIds \ {0} :
            Cardinality({j \in 1..Len(admits) : admits[j][1] = id}) <= 1)
    /\ []((last.ep = "rl" /\ last.up = "status") =>
            /\ last.body.tag = "thrown"
            /\ last.body.upstatus = 404 => last.body.message = "WindBorne 404"
            /\ last.body.upstatus = 500 => last.body.message = "WindBorne 500")
    /\ []((last.ep = "rl" /\ last.up \in {"empty", "blank", "garbage"}) =>
            last.body.tag = "thrown")
    /\ [][\A c \in Callers :
            (req[c].pc = "fetching" /\ req'[c] /= req[c]) =>
                /\ req'[c].pc = "idle"
                /\ last'.id = req[c].id
                /\ stamps' = stamps /\ admits' = admits]_vars

\* An invocation that had to wait was answered 404 and ended with the error.
C23_Witness ==
    /\ last.ep = "rl" /\ last.up = "status"
    /\ last.body.upstatus = 404 /\ last.body.tag = "thrown"
    /\ \E j \in 1..Len(admits) : admits[j][1] = last.id /\ admits[j][2] > 1

(* ---- more claims about the history listing ---- *)
\* C24: in a batch that is not classified Fahrenheit a finite reading is
\* changed (to (f - 32) * 5 / 9) only if it is in [32, 100] and the largest
\* reading of the batch is above 50 and below 130, every other reading keeps
\* its value, and [15, 18, 20, 22] is listed as it came; in a batch that is
\* classified Fahrenheit each finite reading is converted once, never twice.
\* (The listing is what clean keeps of the batch so changed.)
C24_PerValuePass ==
    (Listed /\ Temps(calc.in.batch) /= <<>>) =>
        LET batch == calc.in.batch
            temps == Temps(batch)
            isF == FourConditions(temps)
            hot == /\ \E i \in 1..Len(temps) : temps[i] > Deg(50)
                   /\ \A i \in 1..Len(temps) : temps[i] < Deg(130)
            Once(d) == [d EXCEPT !.t9 = (5 * (d.t9 - Deg(32))) \div 9]
            expected == [i \in 1..Len(batch) |->
                           IF ~batch[i].finite THEN batch[i]
                           ELSE IF isF THEN Once(batch[i])
                           ELSE IF batch[i].t9 >= Deg(32) /\ batch[i].t9 <= Deg(100) /\ hot
                           THEN Once(batch[i])
                           ELSE batch[i]]
        IN  /\ calc.out = SelectSeq(expected, Acceptable)
            /\ batch = ReadingsOf(<<15, 18, 20, 22>>) => calc.out = batch

\* The batch [-60, -50, 68], not classified Fahrenheit, was listed as
\* [-50, 20]: only the reading of 68 was converted.
C24_Witness ==
    /\ Listed
    /\ calc.in.batch = ReadingsOf(<<0 - 60, 0 - 50, 68>>)
    /\ ~FourConditions(Temps(calc.in.batch))
    /\ calc.out = ReadingsOf(<<0 - 50, 20>>)

(* ---- more claims about search ---- *)
\* C25 (as claimed): `all` has one entry for every offer with a usable price
\* of each of the three lists of the answer (best_flights, other_flights,
\* flights), whichever of the other lists are empty.
C25_EveryListMerged ==
    (calc.fn = "search" /\ calc.out[1] = "ok") =>
        LET all == calc.out[2].all
            data == calc.in
            ListOf(name) == IF name = "best_flights" THEN data.best
                            ELSE IF name = "other_flights" THEN data.other
                            ELSE data.flights
        IN  \A name \in {"best_flights", "other_flights", "flights"} :
                \A i \in 1..Len(ListOf(name)) :
                    Usable(ListOf(name)[i].price) =>
                        Cardinality({j \in 1..Len(all) :
                                        all[j].list = name /\ all[j].pos = i}) = 1

(* ------------------------------------------- extractFlightDetails, by calls *)
\* A field of a provider object: absent (or null), an array, or some other
\* truthy value.
NoField == [kind |-> "absent", items |-> <<>>]
NotArray == [kind |-> "other", items |-> <<>>]
ArrayOf(items) == [kind |-> "array", items |-> items]
\* flightObj.x && Array.isArray(flightObj.x)
IsList(field) == field.kind = "array"

\* The stops and durationMinutes that extractFlightDetails sets; <<>> is a
\* field left unset.
extractFlightDetails(flightObj) ==
    LET legs == flightObj.flights.items
        Sum[i \in 0..Len(legs)] == IF i = 0 THEN 0 ELSE Sum[i - 1] + legs[i].duration
        totalMinutes == Sum[Len(legs)]
    IN  [durationMinutes |->
            IF flightObj.total_duration /= <<>> THEN flightObj.total_duration
            ELSE IF IsList(flightObj.flights) /\ totalMinutes > 0 THEN <<totalMinutes>>
            ELSE <<>>,
         stops |->
            IF IsList(flightObj.layovers) THEN <<Len(flightObj.layovers.items)>>
            ELSE IF IsList(flightObj.flights) THEN <<Len(flightObj.flights.items) - 1>>
            ELSE <<>>]

Legs == [duration : {0, 60}]
Layovers == [duration : {45}]
FlightObjs ==
    [layovers : {NoField, NotArray} \cup
                    {ArrayOf(l) : l \in UNION {[1..k -> Layovers] : k \in 0..MaxLegs}},
     flights : {NoField, NotArray} \cup
                    {ArrayOf(l) : l \in UNION {[1..k -> Legs] : k \in 0..MaxLegs}},
     total_duration : {<<>>, <<0>>, <<150>>}]

\* extractFlightDetails(flightObj) is called for an offer with a usable price.
DetailsCall ==
    /\ calc.fn = "pending"
    /\ calc' = [fn |-> "extractFlightDetails", in |-> calc.in,
                out |-> extractFlightDetails(calc.in)]
    /\ UNCHANGED <<now, ticks, stamps, store, req, nCalls, admits, lastOp, sets, last>>

InitDetails ==
    /\ now = 1
    /\ ticks = 0
    /\ stamps = <<>>
    /\ store = EmptyStore
    /\ req = [c \in Callers |-> IdleReq]
    /\ nCalls = 0
    /\ admits = <<>>
    /\ lastOp = [op |-> "none"]
    /\ sets = EmptyStore
    /\ last = NoAnswer
    /\ calc \in {Pending(f) : f \in FlightObjs}

NextDetails == DetailsCall

SpecDetails == InitDetails /\ [][NextDetails]_vars

\* C26 (as claimed): the stops of a quote, when set, is an integer >= 0, the
\* number of layovers when the offer has a layover list and otherwise the
\* number of legs minus one, for every shape of offer (one with an empty leg
\* list included).
C26_StopsNonNegative ==
    (calc.fn = "extractFlightDetails" /\ calc.out.stops /= <<>>) =>
        /\ calc.out.stops[1] >= 0
        /\ IF IsList(calc.in.layovers)
           THEN calc.out.stops[1] = Len(calc.in.layovers.items)
           ELSE calc.out.stops[1] = Len(calc.in.flights.items) - 1

(* --------------------------------------------------- getStations, by calls *)
NoFields == [f \in {} |-> 0]
Optional(name, vals) == {NoFields} \cup {[f \in {name} |-> v] : v \in vals}
\* Station records of the provider: station_id, latitude and longitude, with
\* or without station_name, and with or without fields of their own named
\* id, name, lat, lon.
StationRecords ==
    {Spread(Spread(Spread(Spread(Spread(
        [station_id |-> sid, latitude |-> 34, longitude |-> 118], sn), i), n), la), lo) :
        sid \in {"A", "B"}, sn \in Optional("station_name", {"Alpha"}),
        i \in Optional("id", {"X"}), n \in Optional("name", {"Other"}),
        la \in Optional("lat", {0}), lo \in Optional("lon", {0})}

\* getStations() is called and WindBorne answers 200 with an array of one
\* record.
StationsCall ==
    /\ calc.fn = "pending"
    /\ calc' = [fn |-> "getStations", in |-> calc.in,
                out |-> getStations(rlFetchResult(
                           [net |-> TRUE, ok |-> TRUE, status |-> 200,
                            body |-> WbBody("array", <<calc.in>>)]))]
    /\ UNCHANGED <<now, ticks, stamps, store, req, nCalls, admits, lastOp, sets, last>>

InitStations ==
    /\ now = 1
    /\ ticks = 0
    /\ stamps = <<>>
    /\ store = EmptyStore
    /\ req = [c \in Callers |-> IdleReq]
    /\ nCalls = 0
    /\ admits = <<>>
    /\ lastOp = [op |-> "none"]
    /\ sets = EmptyStore
    /\ last = NoAnswer
    /\ calc \in {Pending(s) : s \in StationRecords}

NextStations == StationsCall

SpecStations == InitStations /\ [][NextStations]_vars

\* C27 (as claimed): the station made of a provider record has id =
\* station_id, name = station_name, lat = latitude and lon = longitude of the
\* record, whatever other fields the record has (fields of its own named id,
\* name, lat or lon included).
C27_RenamedFields ==
    (calc.fn = "getStations" /\ calc.out[1] = "ok") =>
        LET s == calc.in
            st == calc.out[2].items[1]
        IN  /\ Len(calc.out[2].items) = 1
            /\ st.id = s.station_id
            /\ st.lat = s.latitude
            /\ st.lon = s.longitude
            /\ IF "station_name" \in DOMAIN s
               THEN st.name = s.station_name
               ELSE "name" \notin DOMAIN st

(* ---- more claims about the limiter ---- *)
Suspended == {c \in Callers : req[c].pc = "waiting"}
\* An invocation was made while an earlier one was still suspended: ids are
\* handed out in invocation order, and a suspended invocation has its id from
\* before it suspended.
Overlap == \E c \in Suspended : req[c].id < nCalls
SeveralSuspended == Cardinality(Suspended) >= 2

\* The part of C28 about invocations made one after another: when no
\* invocation is ever made while an earlier one is suspended, at most LIMIT
\* admissions fall in any interval [t, t + WINDOW).
C28_SequentialBound == (<>Overlap) \/ []C1_RollingBound

\* A single caller was suspended with LIMIT timestamps in the window and
\* admitted when the oldest had left it: LIMIT admissions in the window that
\* ends with its own.
C28_SequentialWitness ==
    /\ nCalls = 1
    /\ \E c \in Callers : req[c].pc = "fetching" /\ req[c].waited
    /\ \E i \in 1..Len(admits) :
         /\ Cardinality(InWindowFrom(admits[i][2])) = LIMIT
         /\ \E j \in InWindowFrom(admits[i][2]) : admits[j][1] = 1

\* C28 (as claimed): invocations made one after another keep to at most LIMIT
\* admissions in any interval [t, t + WINDOW), and more than LIMIT admissions
\* fall in such an interval only in a behaviour where several callers are
\* suspended in the limiter at the same time.
C28_OnlySeveralSuspended ==
    /\ (<>Overlap) \/ []C1_RollingBound
    /\ (<>SeveralSuspended) \/ []C1_RollingBound

(* ---- more claims about the routes ---- *)
TtlOf(ep) == IF ep = "stations" THEN 300000 ELSE IF ep = "weather" THEN 120000 ELSE 900000
\* The request that begins in this step is for key k.
BeginsFor(k) ==
    /\ nCalls' = nCalls + 1
    /\ \/ last'.id = nCalls' /\ last'.key = k
       \/ \E c \in Callers : req'[c].id = nCalls' /\ req'[c].key = k

\* C29: the answer that fills the cache stores its value with expiry now + TTL
\* of the route (300000, 120000, 900000 ms for stations, weather, flights); a
\* request for a key whose entry has not expired (now <= expiry) is answered
\* 200 with the stored value in the step it arrives in, no handler goes
\* upstream, no timestamp is recorded, the store is as it was; a request for
\* a key whose entry has expired removes the entry and goes upstream (it
\* enters the limiter, or issues the flight search).
C29_CachedUntilExpiry ==
    /\ [][(FinishedUpstream /\ last'.status = 200) =>
            /\ last'.key \in DOMAIN store'
            /\ store'[last'.key] = [v |-> last'.body, exp |-> now + TtlOf(last'.ep)]]_vars
    /\ [][\A k \in DOMAIN store : BeginsFor(k) =>
            IF now <= store[k].exp
            THEN /\ last'.id = nCalls' /\ last'.hit /\ last'.status = 200
                 /\ last'.body = store[k].v /\ last'.up = "none"
                 /\ req' = req /\ stamps' = stamps /\ admits' = admits /\ store' = store
            ELSE /\ k \notin DOMAIN store'
                 /\ last' = last
                 /\ \E c \in Callers :
                      /\ req'[c].id = nCalls' /\ req'[c].key = k
                      /\ req'[c].pc \in {"waiting", "fetching", "searching"}
                      /\ req'[c].pc = "fetching" => admits' = Append(admits, <<nCalls', now>>)]_vars

\* The first request filled the cache, and the second, for the same key,
\* came after the expiry: the entry is gone and the request is upstream.
C29_Witness ==
    /\ last.id = 1 /\ last.status = 200 /\ ~last.hit
    /\ last.key \notin DOMAIN store
    /\ \E c \in Callers :
         req[c].id = 2 /\ req[c].key = last.key /\ req[c].pc \in UpstreamPcs

(* ---- more claims about the cache ---- *)
\* C30: a step changes the store only as the operation it performs on its key
\* k: every other key keeps its entry (value and expiry); a get(k) that finds
\* no entry or an unexpired one leaves the whole store as it was; a set(k, v,
\* ttl) leaves k with exactly the value v and the expiry now + ttl, whether k
\* had an entry or not; and a get(k) made no later than the expiry of the
\* latest set(k) returns the value of that set, whatever was done to other
\* keys in between.
C30_OtherKeysUntouched ==
    /\ [][IF lastOp'.op = "none" THEN store' = store
          ELSE \A x \in (DOMAIN store \cup DOMAIN store') \ {lastOp'.k} :
                  x \in DOMAIN store /\ x \in DOMAIN store' /\ store'[x] = store[x]]_vars
    /\ [][(/\ lastOp'.op = "get" /\ lastOp'.t = now /\ now' = now /\ nCalls' = nCalls
           /\ (lastOp'.k \notin DOMAIN store \/ now <= store[lastOp'.k].exp))
            => store' = store]_vars
    /\ [][(lastOp'.op = "set" /\ nCalls' = nCalls + 1) =>
            /\ sets'[lastOp'.k].t0 = now
            /\ store'[lastOp'.k] = [v |-> sets'[lastOp'.k].v,
                                    exp |-> now + sets'[lastOp'.k].ttl]]_vars
    /\ [](\A k \in DOMAIN sets :
            (lastOp.op = "get" /\ lastOp.k = k /\ lastOp.t <= sets[k].t0 + sets[k].ttl)
                => lastOp.ret = sets[k].v)

\* Two keys were set; a get of one found it expired and removed it, and the
\* other key still has the entry of its set.
C30_Witness ==
    /\ lastOp.op = "get" /\ lastOp.ret = Absent
    /\ lastOp.k \in DOMAIN sets /\ lastOp.k \notin DOMAIN store
    /\ \E x \in DOMAIN store :
         x /= lastOp.k /\ store[x] = [v |-> sets[x].v, exp |-> sets[x].t0 + sets[x].ttl]

====
